---- MODULE Spec2Model ----
(***************************************************************************)
(* The outreach dispatcher of the LinkedIn CLI: MessageSender.send_messages *)
(* (src/messages.py) running against the accounts / leads / message_logs    *)
(* tables (src/linkedin_cli/db.py), together with the manual account edits  *)
(* of AccountManager (src/linkedin_cli/accounts.py), which a second CLI     *)
(* process on the same database file can make while a run is in progress.   *)
(*                                                                          *)
(* Text columns that the code orders or compares (timestamps, cooldowns,    *)
(* display names) are sequences of character codes, compared the way        *)
(* SQLite's BINARY collation compares them.  Timestamps keep the layout of  *)
(* the real ones (date field, separator, time field, each field zero-padded *)
(* to a fixed width) with the date and the time field cut to two digits.    *)
(*                                                                          *)
(* Three further specifications look at one thing each: EntrySpec at the    *)
(* delay prompts answered with "nan", InterruptSpec at Ctrl-C during a run, *)
(* RenderSpec at _render as a function of a template and a lead.            *)
(***************************************************************************)
EXTENDS Integers, Sequences, FiniteSets, TLC

\* ------------------------------------------------------------------ bounds
NumAccounts == 2      \* rows of the accounts table
MaxLeads == 3         \* rows of the chosen lead group
MaxPerAccount == 2    \* largest "Mensajes por cuenta" the operator enters
MaxDelay == 1         \* largest delay (seconds) the operator enters
MaxTime == 1          \* the clock runs over the instants 0..MaxTime
HoursPerDay == 2      \* instants per calendar day
MaxEdits == 1         \* manual account edits made during one behaviour
MaxPieces == 2        \* pieces a template is put together from

\* ------------------------------------------------------- character codes
CharSpace == 32       \* ' ' between date and time in the operator's entry
CharZero == 48        \* '0'
CharT == 84           \* 'T' between date and time in datetime.isoformat()
CharE == 69           \* 'E', the text of a delivery error
CharLowerA == 97      \* 'a', first letter of the account names
Radix == 10

\* SQL NULL / Python None: a value that is no text (texts hold codes >= 0).
NULL == <<-1>>

\* What a call that raises TypeError leaves in place of its value.
TypeError == <<-2>>

\* float("nan"), which float() returns for the entry "nan": a value that is
\* none of the delays -1..MaxDelay.
NaN == -2

\* Python's x < y on floats: false whenever an operand is NaN.
FloatLT(x, y) == x # NaN /\ y # NaN /\ x < y

AccountIds == 1..NumAccounts
Groups == {1, 2}
Statuses == {"viva", "inestable", "muerta"}

Min(S) == CHOOSE x \in S : \A y \in S : x <= y

\* ---------------------------------------------------------------- texts
\* A non-negative number below Radix^2 as two decimal digits.
TwoDigits(n) == <<CharZero + (n \div Radix), CharZero + (n % Radix)>>

DayOf(t) == t \div HoursPerDay
HourOf(t) == t % HoursPerDay

\* datetime.isoformat(timespec="seconds"): date 'T' time.
IsoFormat(t) == TwoDigits(DayOf(t)) \o <<CharT>> \o TwoDigits(HourOf(t))

\* The operator's cooldown entry "YYYY-MM-DD HH:MM": date ' ' time.
OperatorFormat(t) == TwoDigits(DayOf(t)) \o <<CharSpace>> \o TwoDigits(HourOf(t))

\* SQLite's comparison of two TEXT values (BINARY collation): bytewise, the
\* first differing byte decides, a proper prefix sorts first.
TextLE(s, t) ==
    LET n == IF Len(s) < Len(t) THEN Len(s) ELSE Len(t)
        diff == {i \in 1..n : s[i] # t[i]}
    IN IF diff = {} THEN Len(s) <= Len(t) ELSE s[Min(diff)] < t[Min(diff)]

VARIABLES
    accounts,          \* the accounts table: id -> row
    message_logs,      \* the message_logs table, in insertion order
    lead_table,        \* the leads of the chosen lead group, in query order
    message_templates, \* the message_templates table: a set of rows
    now,               \* the clock
    edits,             \* manual edits made so far
    pc,                \* where send_messages stands
    group_id,          \* send_messages' local "group_id": the account group chosen
    acct_rows,         \* send_messages' local "accounts": ids of the rows fetched
    leads,             \* send_messages' local "leads"
    lead_iter,         \* leads already taken from iter(leads)
    per_account, delay_min, delay_max,
    total_sent, exhausted,
    acct_idx,          \* position of the for loop in acct_rows
    sent_for_account,
    lead,              \* the lead of the attempt in progress
    result,            \* outcome of the _dispatch call in progress
    dispatched,        \* history: the (account, lead) pairs handed to _dispatch,
                       \* each with what the call did and with the value of
                       \* sent_for_account at the call
    paced,             \* history: the delays slept since the last _dispatch call
    health_updates,    \* history: the _update_account_activity calls that committed
    outcome,           \* the message send_messages ended with
    template_text,     \* _render's argument "template"
    lead_row,          \* _render's argument "lead": the name columns of a leads row
    message,           \* what _render returned, NULL before the call
    add_pc,            \* where add_account stands
    add_input,         \* what the operator typed at add_account's prompts
    login,             \* what the login attempt of add_account reported
    new_account,       \* the accounts row add_account has committed, if any
    bot                \* AutoResponder.activate_bot: its locals and the replies sent

dbvars == <<accounts, message_logs, lead_table, message_templates>>
cfgvars == <<per_account, delay_min, delay_max>>
loopvars == <<total_sent, exhausted, acct_idx, sent_for_account, lead, result>>
rendervars == <<template_text, lead_row, message>>
addvars == <<add_pc, add_input, login, new_account>>
sendvars == <<pc, group_id, acct_rows, leads, lead_iter, cfgvars, loopvars, dispatched,
                     paced, health_updates, outcome, rendervars>>
runvars == <<sendvars, addvars, bot>>
vars == <<dbvars, now, edits, runvars>>

UtcNow == IsoFormat(now)

\* ------------------------------------------------------------ the tables
\* Identity columns of the rows the model starts with.
GroupOf(a) == 1 + ((a - 1) \div 2)
UsernameOf(a) == <<CharLowerA + ((2 * a) % 3)>>

\* The row add_account leaves behind: 'viva' with last_activity set when the
\* login succeeded, 'inestable' with the failure message otherwise.
NewAccount(a, alias, success) ==
    [ id |-> a, group_id |-> GroupOf(a), username |-> UsernameOf(a),
      alias |-> alias,
      status |-> IF success THEN "viva" ELSE "inestable",
      last_activity |-> IF success THEN IsoFormat(0) ELSE NULL,
      last_message_at |-> NULL,
      last_error |-> IF success THEN NULL ELSE <<CharE>>,
      cooldown_until |-> NULL ]

\* COALESCE(alias, username), also account["alias"] or account["username"].
DisplayName(row) == IF row.alias # NULL THEN row.alias ELSE row.username

Aliases == {NULL, <<CharLowerA>>, <<CharLowerA + 1>>}

\* The leads of the chosen group as _leads returns them, ORDER BY first_name,
\* last_name: as ids, in an order that is not the order of the ids.
LeadsByName(leads_n) == [i \in 1..leads_n |-> leads_n + 1 - i]

\* The state before send_messages is chosen from the menu: the accounts as
\* add_account left them, an empty message log, a lead group of leads_n leads.
InitWith(alias_1, logins, leads_n) ==
    /\ accounts = [a \in AccountIds |->
                     NewAccount(a, IF a = 1 THEN alias_1 ELSE NULL, logins[a])]
    /\ message_logs = << >>
    /\ lead_table = LeadsByName(leads_n)
    /\ message_templates = {}
    /\ now = 0
    /\ edits = 0
    /\ pc = "menu"
    /\ group_id = 0
    /\ acct_rows = << >>
    /\ leads = << >>
    /\ lead_iter = 0
    /\ per_account = 0 /\ delay_min = 0 /\ delay_max = 0
    /\ total_sent = 0
    /\ exhausted = FALSE
    /\ acct_idx = 0
    /\ sent_for_account = 0
    /\ lead = 0
    /\ result = "none"
    /\ dispatched = << >>
    /\ paced = << >>
    /\ health_updates = << >>
    /\ outcome = "none"

\* A value that is no accounts row.
NoRow == [id |-> 0]

\* No account is being added.
AddIdle ==
    /\ add_pc = "idle"
    /\ add_input = [package |-> "none", group_id |-> 0, username |-> << >>, alias |-> << >>]
    /\ login = "none"
    /\ new_account = NoRow

\* activate_bot has not been called.
BotIdle ==
    bot = [ pc |-> "idle", api_key |-> "", prompt |-> "", selected |-> << >>,
            delay_min |-> 0, delay_max |-> 0, idx |-> 0, replies |-> << >> ]

\* No message is being rendered.
RenderIdle ==
    /\ template_text = << >>
    /\ lead_row = [first_name |-> NULL, last_name |-> NULL]
    /\ message = NULL

Init ==
    /\ \E al \in Aliases, ok \in [AccountIds -> BOOLEAN], n \in 0..MaxLeads :
          InitWith(al, ok, n)
    /\ RenderIdle
    /\ AddIdle
    /\ BotIdle

\* Every account logged in, the lead group is full.
InitAllLive ==
    /\ InitWith(NULL, [a \in AccountIds |-> TRUE], MaxLeads)
    /\ RenderIdle
    /\ AddIdle
    /\ BotIdle

\* -------------------------------------------------- the clock, the operator
Tick ==
    /\ now < MaxTime
    /\ now' = now + 1
    /\ UNCHANGED <<dbvars, edits, runvars>>

\* A status check that lets every value through.
ValidStatusAny(new_status) == TRUE

\* update_account_status: new_status in {"viva", "inestable", "muerta"}.
ValidStatus(new_status) == new_status \in Statuses

\* What callers pass as new_status: the three states and a text that is none.
StatusArgs == Statuses \cup {"baneada"}

\* AccountManager.update_account_status: ValueError, and nothing written, for
\* a value that is no status.
UpdateAccountStatus(a, new_status) ==
    /\ edits < MaxEdits
    /\ IF ValidStatus(new_status)
         THEN accounts' = [accounts EXCEPT ![a].status = new_status,
                                           ![a].last_activity = UtcNow]
         ELSE UNCHANGED accounts
    /\ edits' = edits + 1
    /\ UNCHANGED <<message_logs, lead_table, message_templates, now, runvars>>

\* AccountManager._set_cooldown, from "Definir cooldown manual" (a text) and
\* from "Limpiar cooldown" (None).
SetCooldown(a, cooldown) ==
    /\ edits < MaxEdits
    /\ accounts' = [accounts EXCEPT ![a].cooldown_until = cooldown]
    /\ edits' = edits + 1
    /\ UNCHANGED <<message_logs, lead_table, message_templates, now, runvars>>

CooldownEntries == {OperatorFormat(t) : t \in 0..MaxTime}

Operator ==
    \/ \E a \in AccountIds, s \in StatusArgs : UpdateAccountStatus(a, s)
    \/ \E a \in AccountIds, c \in CooldownEntries : SetCooldown(a, c)
    \/ \E a \in AccountIds : SetCooldown(a, NULL)

\* ----------------------------------------------------- MessageSender
\* A query that leaves out only the dead accounts.
RowMatchesNotDead(row, gid, now_text) ==
    /\ row.group_id = gid
    /\ row.status # "muerta"
    /\ (row.cooldown_until = NULL \/ TextLE(row.cooldown_until, now_text))

\* The WHERE clause of _active_accounts for one row.
RowMatches(row, gid, now_text) ==
    /\ row.group_id = gid
    /\ row.status = "viva"
    /\ (row.cooldown_until = NULL \/ TextLE(row.cooldown_until, now_text))

\* The orders in which a query may return the rows S under
\* ORDER BY COALESCE(alias, username): rows with equal keys come in an order
\* the query does not fix.
OrderedByDisplayName(S) ==
    {f \in [1..Cardinality(S) -> S] :
        /\ \A i, j \in DOMAIN f : i # j => f[i] # f[j]
        /\ \A i, j \in DOMAIN f :
              i < j => TextLE(DisplayName(accounts[f[i]]), DisplayName(accounts[f[j]]))}

\* MessageSender._active_accounts: the possible results, as sequences of ids.
ActiveAccounts(gid) ==
    OrderedByDisplayName({a \in AccountIds : RowMatches(accounts[a], gid, UtcNow)})

\* An update that also clears the cooldown.
UpdatedAccountClearingCooldown(row, success, error, ts) ==
    [row EXCEPT !.last_activity = ts,
                !.last_message_at = IF success THEN ts ELSE row.last_message_at,
                !.last_error = IF success THEN NULL ELSE error,
                !.status = IF success THEN row.status ELSE "inestable",
                !.cooldown_until = NULL]

\* An update that promotes the account back to 'viva' on a success.
UpdatedAccountPromoting(row, success, error, ts) ==
    [row EXCEPT !.last_activity = ts,
                !.last_message_at = IF success THEN ts ELSE row.last_message_at,
                !.last_error = IF success THEN NULL ELSE error,
                !.status = IF success THEN "viva" ELSE "inestable"]

\* The row _update_account_activity's UPDATE leaves.
UpdatedAccount(row, success, error, ts) ==
    [row EXCEPT !.last_activity = ts,
                !.last_message_at = IF success THEN ts ELSE row.last_message_at,
                !.last_error = IF success THEN NULL ELSE error,
                !.status = IF success THEN row.status ELSE "inestable"]

\* TemplateManager.ensure_default: an empty table gets the 'Default' row.
EnsureDefault(rows) ==
    IF rows = {} THEN {[name |-> "Default", content |-> "default"]} ELSE rows

\* TemplateManager.create_template: INSERT OR REPLACE on the unique name.
CreateTemplate(rows, name, content) ==
    {t \in rows : t.name # name} \cup {[name |-> name, content |-> content]}

\* TemplateManager.select_template: the table after the prompt, at which the
\* operator picks a row or first enters a template under the name 'Default'.
SelectTemplate(rows) ==
    {EnsureDefault(rows), CreateTemplate(EnsureDefault(rows), "Default", "entered")}

\* An iterator that hands out the leads from the end of the list.
LeadFromEnd(rows, i) == rows[Len(rows) - i]

\* next(lead_iter): the lead the iterator returns after i leads were taken.
LeadAt(rows, i) == rows[i + 1]

\* An iterator that returns its lead without moving past it.
NextLeadIterStuck(i) == i

\* next(lead_iter): the iterator moves past the lead it returns.
NextLeadIter(i) == i + 1

\* A loop that ends after its first account, leads left or not.
BreakLoopAlways(flag) == TRUE

\* A loop whose exit test never fires.
BreakLoopNever(flag) == FALSE

\* "if exhausted: break", after the inner loop and after the for loop.
BreakLoop(flag) == flag

\* A loop test that lets one message more through.
UnderLimitInclusive(sent, limit) == sent <= limit

\* while sent_for_account < per_account.
UnderLimit(sent, limit) == sent < limit

\* An except branch that goes on with the same account.
AfterErrorPcContinue == "while"

\* An except branch that ends the run.
AfterErrorPcReturn == "done"

\* Where the except branch's "break" leaves the run: behind the inner loop.
AfterErrorPc == "after_inner"

\* A log row that drops the error text.
LogEntryWithoutError(ts, account_id, lead_id, status, error) ==
    [ timestamp |-> ts, account_id |-> account_id, lead_id |-> lead_id,
      status |-> status, error_message |-> << >> ]

\* The row _log_message inserts.
LogEntry(ts, account_id, lead_id, status, error) ==
    [ timestamp |-> ts, account_id |-> account_id, lead_id |-> lead_id,
      status |-> status, error_message |-> error ]

\* An insert that is never committed.
LogDropped(logs, entry) == logs

\* An insert that leaves the new row alone in the table.
LogOverwriting(logs, entry) == <<entry>>

\* An insert that puts the new row in front of the others.
LogPrepended(logs, entry) == <<entry>> \o logs

\* INSERT INTO message_logs: the new row gets the next id, behind the others.
LogAppended(logs, entry) == Append(logs, entry)

\* The account of the for loop's current iteration.
account == acct_rows[acct_idx]

\* Lines 196-201: choose the group, fetch its active accounts.
SelectAccounts(gid) ==
    /\ pc = "menu"
    /\ group_id' = gid
    /\ \E rows \in ActiveAccounts(gid) :
         /\ acct_rows' = rows
         /\ IF rows = << >>
              THEN pc' = "done" /\ outcome' = "no_accounts"
              ELSE pc' = "select_leads" /\ UNCHANGED outcome
    /\ UNCHANGED <<dbvars, now, edits, leads, lead_iter, cfgvars, loopvars, dispatched,
                   paced, health_updates, rendervars, addvars, bot>>

\* Lines 202-207: choose the lead group, fetch its leads.
SelectLeads ==
    /\ pc = "select_leads"
    /\ leads' = lead_table
    /\ IF lead_table = << >>
         THEN pc' = "done" /\ outcome' = "no_leads"
         ELSE pc' = "config" /\ UNCHANGED outcome
    /\ UNCHANGED <<dbvars, now, edits, group_id, acct_rows, lead_iter, cfgvars, loopvars,
                   dispatched, paced, health_updates, rendervars, addvars, bot>>

\* Lines 208-231: the pacing prompts and their validation (a non-numeric entry
\* ends the same way as an out-of-range one), the template, the loop's set-up.
Configure(dmin, dmax, per) ==
    /\ pc = "config"
    /\ delay_min' = dmin /\ delay_max' = dmax
    /\ IF FloatLT(dmin, 0) \/ FloatLT(dmax, dmin)
         THEN pc' = "done" /\ outcome' = "invalid_delays"
              /\ UNCHANGED <<per_account, lead_iter, total_sent, message_templates>>
         ELSE /\ per_account' = per
              /\ IF per <= 0
                   THEN pc' = "done" /\ outcome' = "invalid_limit"
                        /\ UNCHANGED <<lead_iter, total_sent, message_templates>>
                   ELSE /\ message_templates' \in SelectTemplate(message_templates)
                        /\ pc' = "pass" /\ lead_iter' = 0 /\ total_sent' = 0
                        /\ UNCHANGED outcome
    /\ UNCHANGED <<accounts, message_logs, lead_table, now, edits, group_id, acct_rows, leads,
                   exhausted, acct_idx, sent_for_account, lead, result, dispatched, paced, health_updates,
                   rendervars, addvars, bot>>

\* Lines 232-233: a pass begins.
Pass ==
    /\ pc = "pass"
    /\ exhausted' = TRUE
    /\ acct_idx' = 0
    /\ pc' = "for"
    /\ UNCHANGED <<dbvars, now, edits, group_id, acct_rows, leads, lead_iter, cfgvars,
                   total_sent, sent_for_account, lead, result, dispatched, paced, health_updates, outcome, rendervars, addvars, bot>>

\* Lines 234-235 and, when the list is used up, lines 266-267.
For ==
    /\ pc = "for"
    /\ IF acct_idx < Len(acct_rows)
         THEN /\ acct_idx' = acct_idx + 1
              /\ sent_for_account' = 0
              /\ pc' = "while"
              /\ UNCHANGED outcome
         ELSE /\ IF BreakLoop(exhausted)
                   THEN pc' = "done" /\ outcome' = "finished"
                   ELSE pc' = "pass" /\ UNCHANGED outcome
              /\ UNCHANGED <<acct_idx, sent_for_account>>
    /\ UNCHANGED <<dbvars, now, edits, group_id, acct_rows, leads, lead_iter, cfgvars,
                   total_sent, exhausted, lead, result, dispatched, paced, health_updates, rendervars, addvars, bot>>

\* Lines 236-242: the inner loop's test and the next lead.
While ==
    /\ pc = "while"
    /\ IF UnderLimit(sent_for_account, per_account)
         THEN IF lead_iter < Len(leads)
                THEN /\ lead' = LeadAt(leads, lead_iter)
                     /\ lead_iter' = NextLeadIter(lead_iter)
                     /\ exhausted' = FALSE
                     /\ pc' = "dispatch"
                ELSE /\ exhausted' = TRUE
                     /\ pc' = "after_inner"
                     /\ UNCHANGED <<lead, lead_iter>>
         ELSE pc' = "after_inner" /\ UNCHANGED <<lead, lead_iter, exhausted>>
    /\ UNCHANGED <<dbvars, now, edits, group_id, acct_rows, leads, cfgvars, total_sent,
                   acct_idx, sent_for_account, result, dispatched, paced, health_updates, outcome, rendervars, addvars, bot>>

\* Line 250: the Sender is called and returns or raises.
Dispatch(r) ==
    /\ pc = "dispatch"
    /\ r \in {"sent", "error"}
    /\ result' = r
    /\ dispatched' = Append(dispatched,
                            [account |-> account, lead |-> lead, result |-> r,
                             sent_for_account |-> sent_for_account])
    /\ paced' = << >>
    /\ pc' = "log"
    /\ UNCHANGED <<dbvars, now, edits, group_id, acct_rows, leads, lead_iter, cfgvars,
                   total_sent, exhausted, acct_idx, sent_for_account, lead, health_updates,
                   outcome, rendervars, addvars, bot>>

\* Lines 251 and 256: _log_message.
LogMessage ==
    /\ pc = "log"
    /\ message_logs' = LogAppended(message_logs,
           LogEntry(UtcNow, account, lead, result,
                    IF result = "sent" THEN << >> ELSE <<CharE>>))
    /\ pc' = "update"
    /\ UNCHANGED <<accounts, lead_table, message_templates, now, edits, group_id, acct_rows, leads, lead_iter,
                   cfgvars, loopvars, dispatched, paced, health_updates, outcome, rendervars, addvars, bot>>

\* Lines 252 and 257-259, then lines 260-262: _update_account_activity, the
\* counters after a success, the break after a failure.
UpdateActivity ==
    /\ pc = "update"
    /\ accounts' = [accounts EXCEPT
                      ![account] = UpdatedAccount(@, result = "sent", <<CharE>>, UtcNow)]
    /\ IF result = "sent"
         THEN /\ sent_for_account' = sent_for_account + 1
              /\ total_sent' = total_sent + 1
              /\ pc' = IF FloatLT(0, delay_max) THEN "pace" ELSE "while"
         ELSE /\ pc' = AfterErrorPc
              /\ UNCHANGED <<sent_for_account, total_sent>>
    /\ result' = "none"
    /\ health_updates' = Append(health_updates,
                                [account |-> account, success |-> result = "sent"])
    /\ UNCHANGED <<message_logs, lead_table, message_templates, now, edits, group_id,
                   acct_rows, leads, lead_iter, cfgvars, exhausted, acct_idx, lead, dispatched,
                   paced, outcome, rendervars, addvars, bot>>

\* Line 263: the pacing sleep, for a delay within [delay_min, delay_max].
\* random.uniform of a NaN bound is NaN, and time.sleep(NaN) raises
\* ValueError, which nothing catches.
Pace ==
    /\ pc = "pace"
    /\ IF delay_min = NaN
         THEN pc' = "crashed" /\ outcome' = "ValueError" /\ UNCHANGED paced
         ELSE /\ \E d \in delay_min..delay_max : paced' = Append(paced, d)
              /\ pc' = "while"
              /\ UNCHANGED outcome
    /\ UNCHANGED <<dbvars, now, edits, group_id, acct_rows, leads, lead_iter, cfgvars,
                   loopvars, dispatched, health_updates, rendervars, addvars, bot>>

\* Lines 264-265 and, through the break, lines 266-268.
AfterInner ==
    /\ pc = "after_inner"
    /\ IF BreakLoop(exhausted)
         THEN pc' = "done" /\ outcome' = "finished"
         ELSE pc' = "for" /\ UNCHANGED outcome
    /\ UNCHANGED <<dbvars, now, edits, group_id, acct_rows, leads, lead_iter, cfgvars,
                   loopvars, dispatched, paced, health_updates, rendervars, addvars, bot>>

DelayEntries == -1..MaxDelay
LimitEntries == 0..MaxPerAccount

Run ==
    \/ \E g \in Groups : SelectAccounts(g)
    \/ SelectLeads
    \/ \E dmin, dmax \in DelayEntries, per \in LimitEntries : Configure(dmin, dmax, per)
    \/ Pass
    \/ For
    \/ While
    \/ \E r \in {"sent", "error"} : Dispatch(r)
    \/ LogMessage
    \/ UpdateActivity
    \/ Pace
    \/ AfterInner

Next == Tick \/ Operator \/ Run

Spec == Init /\ [][Next]_vars

\* Every call send_messages makes returns, and the process keeps running.
FairSpec == InitAllLive /\ [][Next]_vars /\ WF_vars(Run)

\* ------------------------------------------------ entries that are no number
\* Lines 209-210: float() turns the entry "nan" into NaN and raises nothing.
ConfigureNaN ==
    \E dmin, dmax \in DelayEntries \cup {NaN}, per \in LimitEntries :
        /\ dmin = NaN \/ dmax = NaN
        /\ Configure(dmin, dmax, per)

EntryNext == Next \/ ConfigureNaN

\* The runs of an operator who may also type "nan" at the delay prompts.
EntrySpec == InitAllLive /\ [][EntryNext]_vars

\* ------------------------------------------- other writers of the same store
\* _manage_account, "4. Actualizar alias": UPDATE accounts SET alias.
UpdateAlias(a, new_alias) ==
    /\ edits < MaxEdits
    /\ accounts' = [accounts EXCEPT ![a].alias = new_alias]
    /\ edits' = edits + 1
    /\ UNCHANGED <<message_logs, lead_table, message_templates, now, runvars>>

\* A lead of another lead group, which a second run works on.
OtherLead == 0

\* _log_message called by a second send_messages process.
OtherLogMessage(a, status) ==
    /\ edits < MaxEdits
    /\ message_logs' = LogAppended(message_logs,
           LogEntry(UtcNow, a, OtherLead, status,
                    IF status = "sent" THEN << >> ELSE <<CharE>>))
    /\ edits' = edits + 1
    /\ UNCHANGED <<accounts, lead_table, message_templates, now, runvars>>

\* _update_account_activity called by a second send_messages process.
OtherUpdateActivity(a, success) ==
    /\ edits < MaxEdits
    /\ accounts' = [accounts EXCEPT ![a] = UpdatedAccount(@, success, <<CharE>>, UtcNow)]
    /\ edits' = edits + 1
    /\ UNCHANGED <<message_logs, lead_table, message_templates, now, runvars>>

OtherWriters ==
    \/ \E a \in AccountIds, al \in Aliases : UpdateAlias(a, al)
    \/ \E a \in AccountIds, st \in {"sent", "error"} : OtherLogMessage(a, st)
    \/ \E a \in AccountIds, ok \in BOOLEAN : OtherUpdateActivity(a, ok)

ConcurrentNext == Next \/ OtherWriters

\* A run with, on the same database file, the operator's edits (alias edits
\* among them) and the writes of a second run.
ConcurrentSpec == InitAllLive /\ [][ConcurrentNext]_vars

\* ------------------------------------------------- a store whose writes fail
\* _log_message raises (sqlite3.OperationalError, "database is locked").  In
\* the try block "except Exception" catches it and the except branch runs as
\* after a Sender failure; in the except branch nothing catches it.
LogMessageRaises ==
    /\ pc = "log"
    /\ IF result = "sent"
         THEN pc' = "log" /\ result' = "error" /\ UNCHANGED outcome
         ELSE pc' = "crashed" /\ outcome' = "OperationalError" /\ UNCHANGED result
    /\ UNCHANGED <<dbvars, now, edits, group_id, acct_rows, leads, lead_iter, cfgvars,
                   total_sent, exhausted, acct_idx, sent_for_account, lead, dispatched,
                   paced, health_updates, rendervars, addvars, bot>>

\* _update_account_activity raises: in the try block, with the 'sent' row
\* written, the except branch runs; in the except branch nothing catches it.
UpdateActivityRaises ==
    /\ pc = "update"
    /\ IF result = "sent"
         THEN pc' = "log" /\ result' = "error" /\ UNCHANGED outcome
         ELSE pc' = "crashed" /\ outcome' = "OperationalError" /\ UNCHANGED result
    /\ UNCHANGED <<dbvars, now, edits, group_id, acct_rows, leads, lead_iter, cfgvars,
                   total_sent, exhausted, acct_idx, sent_for_account, lead, dispatched,
                   paced, health_updates, rendervars, addvars, bot>>

StoreNext == Next \/ LogMessageRaises \/ UpdateActivityRaises

\* The runs on a store whose writes can fail.
StoreSpec == InitAllLive /\ [][StoreNext]_vars

\* ------------------------------------------------------ the operator's Ctrl-C
\* The program points of send_messages.
RunningPcs ==
    {"select_leads", "config", "pass", "for", "while", "dispatch", "log", "update",
     "pace", "after_inner"}

\* KeyboardInterrupt raised while send_messages runs: "except Exception" does
\* not catch it and main() has no handler, so it unwinds send_messages from
\* wherever it stands and ends the program.
Interrupt ==
    /\ pc \in RunningPcs
    /\ pc' = "interrupted"
    /\ outcome' = "KeyboardInterrupt"
    /\ UNCHANGED <<dbvars, now, edits, group_id, acct_rows, leads, lead_iter, cfgvars,
                   loopvars, dispatched, paced, health_updates, rendervars, addvars, bot>>

InterruptNext == Next \/ Interrupt

\* The runs of an operator who may press Ctrl-C.
InterruptSpec == InitAllLive /\ [][InterruptNext]_vars

\* --------------------------------------------------------------- _render
\* The text "{first_name}".
PlaceholderFirst == <<123, 102, 105, 114, 115, 116, 95, 110, 97, 109, 101, 125>>

\* The text "{last_name}".
PlaceholderLast == <<123, 108, 97, 115, 116, 95, 110, 97, 109, 101, 125>>

\* The text "{x}", a placeholder _render does not know.
PlaceholderOther == <<123, 120, 125>>

\* Texts a template is put together from.
Pieces == {PlaceholderFirst, PlaceholderLast, PlaceholderOther, <<CharLowerA>>}

\* The templates of at most n pieces.
RECURSIVE TemplatesOf(_)
TemplatesOf(n) ==
    IF n = 0 THEN {<< >>}
    ELSE TemplatesOf(n - 1) \cup {t \o q : t \in TemplatesOf(n - 1), q \in Pieces}

Templates == TemplatesOf(MaxPieces)

\* What the first_name and last_name columns of a leads row can hold: NULL,
\* the empty text, a name, the text of a placeholder.
Names == {NULL, << >>, <<CharLowerA>>, PlaceholderFirst, PlaceholderLast}

LeadRows == [first_name : Names, last_name : Names]

\* str.replace(old, new) on texts, old not empty: every occurrence of old,
\* found from the left and not overlapping the one before it, becomes new.
RECURSIVE Replaced(_, _, _)
Replaced(text, old, new) ==
    IF Len(text) < Len(old) THEN text
    ELSE IF SubSeq(text, 1, Len(old)) = old
           THEN new \o Replaced(SubSeq(text, Len(old) + 1, Len(text)), old, new)
           ELSE <<Head(text)>> \o Replaced(Tail(text), old, new)

\* msg.replace(old, new) as the interpreter runs it: TypeError when new is
\* None, and an exception raised earlier stays raised.
StrReplace(text, old, new) ==
    IF text = TypeError \/ new = NULL THEN TypeError ELSE Replaced(text, old, new)

\* A column value passed on as it is stored.
AsStored(value) == value

\* value or "": None and the empty text give the empty text.
OrEmpty(value) == IF value = NULL \/ value = << >> THEN << >> ELSE value

\* _render: the two replacements, first_name before last_name.
Render(template, row) ==
    StrReplace(StrReplace(template, PlaceholderFirst, OrEmpty(row.first_name)),
               PlaceholderLast, OrEmpty(row.last_name))

\* Line 243: message = self._render(template_text, lead).
RenderMessage ==
    /\ message = NULL
    /\ message' = Render(template_text, lead_row)
    /\ UNCHANGED <<dbvars, now, edits, pc, group_id, acct_rows, leads, lead_iter, cfgvars,
                   loopvars, dispatched, paced, health_updates, outcome, template_text, lead_row,
                   addvars, bot>>

\* A template and a lead, before the call.
RenderInit ==
    /\ InitWith(NULL, [a \in AccountIds |-> TRUE], MaxLeads)
    /\ AddIdle
    /\ BotIdle
    /\ template_text \in Templates
    /\ lead_row \in LeadRows
    /\ message = NULL

\* _render applied to every template and every lead of the bounded sets.
RenderSpec == RenderInit /\ [][RenderMessage]_vars

\* ------------------------------------------------------------ add_account
\* What the operator types as user name and as alias.
UsernameEntries == {<< >>, <<CharLowerA>>, <<CharLowerA + 1>>}
AliasEntries == {<< >>, <<CharLowerA>>, <<CharLowerA + 1>>}

\* The two add_account of the repository: src/linkedin_cli/accounts.py and
\* src/accounts.py.
Packages == {"linkedin_cli", "src"}

\* An INSERT that leaves the status to the column's default.
InsertedStatusDefault == "viva"

\* src/linkedin_cli/accounts.py: the status in the INSERT made before the login.
InsertedStatus == "inestable"

\* The accounts row for what the operator typed: cur.lastrowid as id,
\* "alias or None" as alias.
AddedRow(input, status, last_activity, last_error) ==
    [ id |-> NumAccounts + 1, group_id |-> input.group_id, username |-> input.username,
      alias |-> IF input.alias = << >> THEN NULL ELSE input.alias,
      status |-> status, last_activity |-> last_activity, last_message_at |-> NULL,
      last_error |-> last_error, cooldown_until |-> NULL ]

\* The prompts; in linkedin_cli also the INSERT, committed before the login.
AddPrompt ==
    /\ add_pc = "prompt"
    /\ IF add_input.username = << >>
         THEN add_pc' = "done" /\ UNCHANGED new_account
         ELSE /\ add_pc' = "login"
              /\ IF add_input.package = "linkedin_cli"
                   THEN new_account' = AddedRow(add_input, InsertedStatus, NULL, NULL)
                   ELSE UNCHANGED new_account
    /\ UNCHANGED <<dbvars, now, edits, sendvars, add_input, login, bot>>

\* The login attempt reports success or failure, and the row is stored with
\* what it reported: by UPDATE in linkedin_cli, by INSERT in src/accounts.py.
AddLogin(success) ==
    /\ add_pc = "login"
    /\ login' = IF success THEN "ok" ELSE "failed"
    /\ new_account' = AddedRow(add_input,
                               IF success THEN "viva" ELSE "inestable",
                               IF success THEN UtcNow ELSE NULL,
                               IF success THEN NULL ELSE <<CharE>>)
    /\ add_pc' = "done"
    /\ UNCHANGED <<dbvars, now, edits, sendvars, add_input, bot>>

\* The process is killed while the login is under way.
AddCrash ==
    /\ add_pc = "login"
    /\ add_pc' = "crashed"
    /\ UNCHANGED <<dbvars, now, edits, sendvars, add_input, login, new_account, bot>>

AddNext == AddPrompt \/ (\E success \in BOOLEAN : AddLogin(success)) \/ AddCrash

\* add_account is called, with every entry of the bounded sets.
AddInit ==
    /\ InitWith(NULL, [a \in AccountIds |-> TRUE], MaxLeads)
    /\ RenderIdle
    /\ BotIdle
    /\ add_pc = "prompt"
    /\ add_input \in [package : Packages, group_id : Groups,
                       username : UsernameEntries, alias : AliasEntries]
    /\ login = "none"
    /\ new_account = NoRow

AddSpec == AddInit /\ [][AddNext]_vars

\* ----------------------------------------------------------- activate_bot
MaxReplies == 2       \* replies the bot makes in one behaviour

\* The values of the config table's api_key and prompt rows ("" when absent).
ConfigValues == {"", "set"}

\* list_accounts: the accounts of a group, ORDER BY COALESCE(alias, username).
ListAccounts(gid) ==
    OrderedByDisplayName({a \in AccountIds : accounts[a].group_id = gid})

\* The filter activate_bot puts on them: acc["status"] == "viva".
IsViva(a) == accounts[a].status = "viva"
VivaOf(listed) == SelectSeq(listed, IsViva)

\* The lists of numbers the operator types at "Seleccione cuentas".
IndexLists == UNION {[1..n -> 0..NumAccounts + 1] : n \in 1..NumAccounts}

\* What the operator types there: "0" or nothing for all, a list of numbers,
\* or something int() rejects.
ChoiceEntries ==
    {[kind |-> k, indexes |-> << >>] : k \in {"all", "invalid"}}
        \cup {[kind |-> "list", indexes |-> l] : l \in IndexLists}

\* The rows a list of numbers selects, in the order typed: numbers out of
\* range are passed over.
InRange(rows, i) == 1 <= i /\ i <= Len(rows)
SelectedBy(rows, indexes) ==
    LET ok == SelectSeq(indexes, LAMBDA i : InRange(rows, i))
    IN [k \in 1..Len(ok) |-> rows[ok[k]]]

\* activate_bot up to "Bot activado": the checks, each ending the call.
ActivateBot(gid, choice, dmin, dmax) ==
    /\ bot.pc = "idle"
    /\ \E listed \in ListAccounts(gid) :
       LET rows == VivaOf(listed)
           selected == IF choice.kind = "all" THEN rows
                       ELSE IF choice.kind = "invalid" THEN << >>
                       ELSE SelectedBy(rows, choice.indexes)
           ended == IF bot.api_key = "" \/ bot.prompt = "" THEN "not_configured"
                    ELSE IF rows = << >> THEN "no_accounts"
                    ELSE IF choice.kind = "invalid" THEN "invalid_choice"
                    ELSE IF selected = << >> THEN "none_selected"
                    ELSE IF FloatLT(dmin, 0) \/ FloatLT(dmax, dmin) THEN "invalid_delays"
                    ELSE "loop"
       IN bot' = IF ended = "loop"
                   THEN [bot EXCEPT !.pc = "loop", !.selected = selected,
                                    !.delay_min = dmin, !.delay_max = dmax]
                   ELSE [bot EXCEPT !.pc = ended]
    /\ UNCHANGED <<dbvars, now, edits, sendvars, addvars>>

\* One turn of "for account in selected": with an incoming message, a reply.
BotPoll(incoming) ==
    /\ bot.pc = "loop"
    /\ bot.idx < Len(bot.selected)
    /\ incoming => Len(bot.replies) < MaxReplies
    /\ bot' = [bot EXCEPT !.idx = @ + 1,
                          !.replies = IF incoming
                                        THEN Append(@, bot.selected[bot.idx + 1])
                                        ELSE @]
    /\ UNCHANGED <<dbvars, now, edits, sendvars, addvars>>

\* time.sleep(random.uniform(delay_min, delay_max)) after the for loop:
\* ValueError, which the except clause does not catch, for a NaN bound.
BotSleep ==
    /\ bot.pc = "loop"
    /\ bot.idx = Len(bot.selected)
    /\ bot' = IF bot.delay_min = NaN \/ bot.delay_max = NaN
                 THEN [bot EXCEPT !.pc = "crashed"]
                 ELSE [bot EXCEPT !.idx = 0]
    /\ UNCHANGED <<dbvars, now, edits, sendvars, addvars>>

\* except KeyboardInterrupt: "Bot detenido."
BotInterrupt ==
    /\ bot.pc = "loop"
    /\ bot' = [bot EXCEPT !.pc = "stopped"]
    /\ UNCHANGED <<dbvars, now, edits, sendvars, addvars>>

BotNext ==
    \/ \E gid \in Groups, choice \in ChoiceEntries, dmin, dmax \in DelayEntries \cup {NaN} :
          ActivateBot(gid, choice, dmin, dmax)
    \/ \E incoming \in BOOLEAN : BotPoll(incoming)
    \/ BotSleep
    \/ BotInterrupt

\* activate_bot is called, on accounts as add_account left them and with
\* the config table holding api_key and prompt or not.
BotInit ==
    /\ \E ok \in [AccountIds -> BOOLEAN] : InitWith(NULL, ok, MaxLeads)
    /\ RenderIdle
    /\ AddIdle
    /\ \E k, p \in ConfigValues : bot = [ pc |-> "idle", api_key |-> k, prompt |-> p,
                                         selected |-> << >>, delay_min |-> 0,
                                         delay_max |-> 0, idx |-> 0, replies |-> << >> ]

BotSpec == BotInit /\ [][BotNext]_vars

\* ------------------------------------------------------------------ claims
\* Attempts made with account a so far in the run.
AttemptsBy(a) == Cardinality({i \in DOMAIN dispatched : dispatched[i].account = a})

\* The instant an operator's cooldown entry stands for.
EntryTime(text) == CHOOSE t \in 0..MaxTime : OperatorFormat(t) = text

\* The cooldown of a row lies in the future.
CooldownPending(row) ==
    row.cooldown_until # NULL /\ now < EntryTime(row.cooldown_until)

\* The ids in a sequence of fetched rows.
Ids(rows) == {rows[i] : i \in DOMAIN rows}

\* A sequence of fetched rows is in non-decreasing display-name order, no row twice.
InDisplayOrder(rows) ==
    \A i, j \in DOMAIN rows :
        i < j => /\ rows[i] # rows[j]
                 /\ TextLE(DisplayName(accounts[rows[i]]), DisplayName(accounts[rows[j]]))

\* C1: over a whole run no account makes more than per_account attempts.
C1_AttemptsWithinLimit ==
    \A a \in AccountIds : AttemptsBy(a) > 0 => AttemptsBy(a) <= per_account

\* C2: within a run no lead is handed to the Sender twice, and no lead has two
\* log entries, whatever the outcomes of the attempts.
C2_LeadTakenOnce ==
    /\ \A i, j \in DOMAIN dispatched :
          i # j => dispatched[i].lead # dispatched[j].lead
    /\ \A i, j \in DOMAIN message_logs :
          i # j => message_logs[i].lead_id # message_logs[j].lead_id

\* C2 witness: a finished run that took every lead, with two accounts and a
\* failed attempt among them.
C2_Witness ==
    /\ pc = "done"
    /\ Len(dispatched) = MaxLeads
    /\ \E i, j \in DOMAIN dispatched : dispatched[i].account # dispatched[j].account
    /\ \E i \in DOMAIN message_logs : message_logs[i].status = "error"

\* C3: no account is fetched at run start, and none is handed to the Sender,
\* while its stored status is 'muerta'.
C3_NeverDispatchDead ==
    [][ /\ \A g \in Groups : SelectAccounts(g) =>
              \A a \in Ids(acct_rows') : accounts[a].status # "muerta"
        /\ \A r \in {"sent", "error"} : Dispatch(r) =>
              accounts[account].status # "muerta" ]_vars

\* C4: after a failed attempt by an account no later attempt of the run uses it.
C4_FailedAccountSkipped ==
    \A i \in DOMAIN message_logs : \A j \in DOMAIN dispatched :
        (message_logs[i].status = "error" /\ i < j)
            => dispatched[j].account # message_logs[i].account_id

\* C5: the post-dispatch health update never moves an account out of 'muerta'.
C5_DeadStaysDead ==
    [][ UpdateActivity =>
           \A a \in AccountIds :
               accounts[a].status = "muerta" => accounts'[a].status = "muerta" ]_vars

C7_PendingCooldownExcluded ==
    [][ \A g \in Groups : SelectAccounts(g) =>
           \A a \in Ids(acct_rows') : ~CooldownPending(accounts[a]) ]_vars

\* C8: the health update touches one row and, of it, only last_activity,
\* last_message_at, last_error and status; a success keeps the status, sets
\* last_message_at to now and clears last_error; a failure keeps
\* last_message_at and stores the error text.
C8_HealthUpdateFrame ==
    [][ UpdateActivity =>
           LET old == accounts[account]
               new == accounts'[account]
           IN /\ \A b \in AccountIds \ {account} : accounts'[b] = accounts[b]
              /\ new.id = old.id /\ new.group_id = old.group_id
              /\ new.username = old.username /\ new.alias = old.alias
              /\ new.cooldown_until = old.cooldown_until
              /\ new.last_activity = UtcNow
              /\ result = "sent" =>
                    /\ new.status = old.status
                    /\ new.last_message_at = UtcNow
                    /\ new.last_error = NULL
              /\ result = "error" =>
                    /\ new.last_message_at = old.last_message_at
                    /\ new.last_error = <<CharE>> ]_vars

\* C8 witness: with no manual edit made, an 'inestable' account whose last
\* attempt succeeded (an account that failed, was used again and stays
\* 'inestable').
C8_Witness ==
    /\ edits = 0
    /\ \E a \in AccountIds :
          /\ accounts[a].status = "inestable"
          /\ accounts[a].last_message_at # NULL
          /\ accounts[a].last_error = NULL

\* C9: a failed attempt is logged as 'error' for its account and lead, leaves
\* the account 'inestable' and does not end the run; the run ends only with
\* the leads used up; and after a failure with leads remaining a further
\* attempt is made.
C9_FailureNotFatal ==
    /\ [][ (UpdateActivity /\ result = "error") =>
              /\ message_logs[Len(message_logs)] =
                    [ timestamp |-> message_logs[Len(message_logs)].timestamp,
                      account_id |-> account, lead_id |-> lead,
                      status |-> "error", error_message |-> <<CharE>> ]
              /\ accounts'[account].status = "inestable"
              /\ pc' # "done" ]_vars
    /\ [](pc = "done" /\ dispatched # << >> => lead_iter = Len(leads))
    /\ \A n \in 1..MaxLeads :
          (/\ Len(message_logs) = n
           /\ message_logs[n].status = "error"
           /\ lead_iter < Len(leads)) ~> (Len(dispatched) > n)

\* C9 witness: the first attempt failed, its account is 'inestable', and a
\* further attempt was made.
C9_Witness ==
    /\ Len(dispatched) >= 2
    /\ message_logs[1].status = "error"
    /\ accounts[message_logs[1].account_id].status = "inestable"

\* C10: a run that enters the dispatch loop ends with its summary.
C10_RunTerminates ==
    (pc = "pass") ~> (pc = "done" /\ outcome = "finished")

\* C10 witness: a run has ended with its summary after an attempt on every
\* lead, a failed one among them.
C10_Witness ==
    /\ pc = "done" /\ outcome = "finished"
    /\ Len(message_logs) = MaxLeads
    /\ \E i \in DOMAIN message_logs : message_logs[i].status = "error"
    /\ \E i \in DOMAIN message_logs : message_logs[i].status = "sent"

\* The log entries with a given status.
Logged(status) == {i \in DOMAIN message_logs : message_logs[i].status = status}

\* The run has ended with its summary.
Finished == pc = "done" /\ outcome = "finished"

\* The Sender has succeeded on every call so far.
SenderAlwaysSucceeded == \A i \in DOMAIN dispatched : dispatched[i].result = "sent"

\* The Sender has failed on every call so far.
SenderAlwaysFailed == \A i \in DOMAIN dispatched : dispatched[i].result = "error"

\* C11: a finished run with zero delays, a Sender that always succeeded and no
\* more leads than accounts times the limit has sent every lead exactly once,
\* has no error entry, and ended with the leads used up.
C11_AllSentWhenSenderSucceeds ==
    (/\ Finished
     /\ delay_min = 0 /\ delay_max = 0
     /\ SenderAlwaysSucceeded
     /\ Len(leads) <= Len(acct_rows) * per_account)
    => /\ total_sent = Len(leads)
       /\ Logged("error") = {}
       /\ \A l \in Ids(leads) :
             Cardinality({i \in Logged("sent") : message_logs[i].lead_id = l}) = 1
       /\ lead_iter = Len(leads) /\ exhausted

\* C11 witness: such a run has finished, with as many leads as two accounts
\* capped at one can take and more than one account can.
C11_Witness ==
    /\ Finished
    /\ delay_min = 0 /\ delay_max = 0
    /\ SenderAlwaysSucceeded
    /\ Len(acct_rows) = NumAccounts /\ per_account = 1
    /\ Len(leads) = NumAccounts
    /\ total_sent = NumAccounts

\* C12: a finished run whose Sender failed on every call and that had more
\* leads than accounts times the limit made exactly accounts times the limit
\* attempts, sent nothing, and left every account 'inestable' (where no
\* manual edit was made).
C12_StopsWhenAccountsExhausted ==
    (/\ Finished
     /\ SenderAlwaysFailed
     /\ Len(leads) > Len(acct_rows) * per_account)
    => /\ Len(dispatched) = Len(acct_rows) * per_account
       /\ Logged("error") = DOMAIN dispatched
       /\ total_sent = 0
       /\ lead_iter < Len(leads)
       /\ edits = 0 => \A a \in Ids(acct_rows) : accounts[a].status = "inestable"

\* C13: every attempt that is through has exactly one log entry, for its
\* account and lead, 'sent' when the Sender returned and 'error' with the
\* error text when it raised; and the total a finished run reports is the
\* number of its 'sent' entries.
C13_OneEntryPerAttempt ==
    /\ Len(message_logs) = Len(dispatched) - (IF pc = "log" THEN 1 ELSE 0)
    /\ \A i \in DOMAIN message_logs :
          /\ message_logs[i].account_id = dispatched[i].account
          /\ message_logs[i].lead_id = dispatched[i].lead
          /\ message_logs[i].status = dispatched[i].result
          /\ message_logs[i].status = "sent" => message_logs[i].error_message = << >>
          /\ message_logs[i].status = "error" => message_logs[i].error_message = <<CharE>>
    /\ Logged("sent") \cup Logged("error") = DOMAIN message_logs
    /\ Finished => total_sent = Cardinality(Logged("sent"))

\* C13 witness: a finished run that reports one sent message of three attempts.
C13_Witness ==
    /\ Finished
    /\ Len(dispatched) = MaxLeads
    /\ total_sent = 1
    /\ Cardinality(Logged("error")) = MaxLeads - 1

\* C14: a step never changes or removes an entry the log holds; the entries
\* stand in the order of the attempts; and within a run neither the sent
\* total nor the number of entries decreases.
C14_LogAppendOnly ==
    /\ [][ /\ Len(message_logs') >= Len(message_logs)
           /\ SubSeq(message_logs', 1, Len(message_logs)) = message_logs
           /\ pc \notin {"menu", "select_leads", "config"} => total_sent' >= total_sent ]_vars
    /\ [](\A i \in DOMAIN message_logs :
             /\ message_logs[i].account_id = dispatched[i].account
             /\ message_logs[i].lead_id = dispatched[i].lead)
    /\ [](\A i, j \in DOMAIN message_logs :
             i < j => TextLE(message_logs[i].timestamp, message_logs[j].timestamp))

\* C14 witness: the log holds the entries of two attempts on different leads,
\* the second written at a later time than the first, and a third attempt is
\* about to be logged.
C14_Witness ==
    /\ pc = "log"
    /\ Len(message_logs) = 2
    /\ message_logs[1].lead_id # message_logs[2].lead_id
    /\ message_logs[1].timestamp # message_logs[2].timestamp

\* The place of an account in the rows fetched at run start.
PlaceOf(a) == CHOOSE i \in DOMAIN acct_rows : acct_rows[i] = a

C15_InterruptBetweenAttempts ==
    (pc = "interrupted" /\ dispatched # << >>)
    => /\ Len(message_logs) = Len(dispatched)
       /\ result = "none"
       /\ outcome # "KeyboardInterrupt"

\* Every account of group g has a status the query does not select or has
\* its cooldown in the future.
NoneEligible(g) ==
    \A a \in AccountIds :
        accounts[a].group_id = g =>
            accounts[a].status # "viva" \/ CooldownPending(accounts[a])

\* C16: a run started on a group whose accounts all have a status that is not
\* selected or a cooldown in the future ends at once as 'no accounts', leaving the tables as they are; and a run
\* that ended so has called the Sender for nothing and logged nothing.
C16_NoEligibleIsNoOp ==
    /\ [][ \A g \in Groups : (SelectAccounts(g) /\ NoneEligible(g)) =>
              /\ pc' = "done" /\ outcome' = "no_accounts"
              /\ UNCHANGED dbvars ]_vars
    /\ [](outcome = "no_accounts" => dispatched = << >> /\ message_logs = << >>)

\* The prompts are through and what was entered is no valid pacing config.
InvalidEntries ==
    /\ pc \notin {"menu", "select_leads", "config"}
    /\ outcome \notin {"no_accounts", "no_leads"}
    /\ \/ delay_min = NaN \/ delay_max = NaN
       \/ delay_min < 0 \/ delay_max < delay_min
       \/ per_account < 1

\* C17: with an empty lead list or an invalid pacing entry the Sender is never
\* called, nothing is logged and, where no manual edit was made, the accounts
\* are as they were.
C17_InvalidEntriesStopRun ==
    (outcome = "no_leads" \/ InvalidEntries)
    => /\ dispatched = << >>
       /\ message_logs = << >>
       /\ edits = 0 => accounts = [a \in AccountIds |-> NewAccount(a, NULL, TRUE)]

\* C19: no sleep comes before the first Sender call; with a positive
\* delay_max every later Sender call comes after exactly one sleep, of a
\* delay within [delay_min, delay_max], since the call before it; and a sleep
\* begins only with the log entry and the health update of the attempt
\* before it written.
C19_OnePaceBetweenAttempts ==
    /\ (pc = "dispatch" /\ dispatched = << >>) => paced = << >>
    /\ (pc = "dispatch" /\ dispatched # << >> /\ delay_max > 0) =>
          /\ Len(paced) = 1
          /\ paced[1] \in delay_min..delay_max
    /\ pc = "pace" => result = "none" /\ Len(message_logs) = Len(dispatched)

\* C20: _render returns a text, and raises nothing, for every template and
\* every lead, the leads without first_name or last_name among them; the text
\* is the one its arguments determine; and the call changes neither a table
\* nor its arguments.
C20_RenderTotal ==
    /\ [](message # NULL =>
             /\ message # TypeError
             /\ \A i \in DOMAIN message : message[i] >= 0
             /\ message = Render(template_text, lead_row))
    /\ [][ RenderMessage => UNCHANGED <<dbvars, template_text, lead_row>> ]_vars

\* C20 witness: a template of both placeholders was rendered for a lead whose
\* first_name and last_name are NULL, and gave the empty text.
C20_Witness ==
    /\ template_text = PlaceholderFirst \o PlaceholderLast
    /\ lead_row = [first_name |-> NULL, last_name |-> NULL]
    /\ message = << >>

\* The template with every {first_name} and {last_name} that stands in it
\* replaced by the given texts in one pass from the left, the rest kept.
RECURSIVE Substituted(_, _, _)
Substituted(text, first, last) ==
    IF text = << >> THEN << >>
    ELSE IF Len(text) >= Len(PlaceholderFirst)
            /\ SubSeq(text, 1, Len(PlaceholderFirst)) = PlaceholderFirst
           THEN first \o Substituted(SubSeq(text, Len(PlaceholderFirst) + 1, Len(text)),
                                     first, last)
    ELSE IF Len(text) >= Len(PlaceholderLast)
            /\ SubSeq(text, 1, Len(PlaceholderLast)) = PlaceholderLast
           THEN last \o Substituted(SubSeq(text, Len(PlaceholderLast) + 1, Len(text)),
                                    first, last)
    ELSE <<Head(text)>> \o Substituted(Tail(text), first, last)

\* C21: the rendered message is the template with each {first_name} and
\* {last_name} of the template replaced by the lead's stored value (the empty
\* text for NULL), everything else as in the template.
C21_RenderSubstitutes ==
    message # NULL =>
        message = Substituted(template_text,
                              IF lead_row.first_name = NULL THEN << >>
                                                            ELSE lead_row.first_name,
                              IF lead_row.last_name = NULL THEN << >>
                                                           ELSE lead_row.last_name)

\* C22: every stored account has one of the three statuses, and
\* update_account_status called with another value writes nothing.
C22_StatusEnumeration ==
    /\ [](\A a \in AccountIds : accounts[a].status \in Statuses)
    /\ [][ \A a \in AccountIds, s \in StatusArgs \ Statuses :
              UpdateAccountStatus(a, s) => UNCHANGED dbvars ]_vars

\* C22 witness: a run has marked one account 'inestable' after a failure and
\* the operator's one call of update_account_status has marked another
\* 'muerta'.
C22_Witness ==
    /\ edits = 1
    /\ \E i \in DOMAIN message_logs : message_logs[i].status = "error"
    /\ \E a, b \in AccountIds :
          /\ accounts[a].status = "muerta"
          /\ accounts[b].status = "inestable"
          /\ accounts[b].last_error # NULL

\* A step creates or deletes no account, leaves the identity columns and
\* cooldown_until of every account as they are, and changes only accounts of
\* the run-start snapshot.
AccountsFrame ==
    /\ DOMAIN accounts' = DOMAIN accounts
    /\ \A a \in AccountIds :
          /\ accounts'[a].id = accounts[a].id
          /\ accounts'[a].group_id = accounts[a].group_id
          /\ accounts'[a].username = accounts[a].username
          /\ accounts'[a].alias = accounts[a].alias
          /\ accounts'[a].cooldown_until = accounts[a].cooldown_until
          /\ accounts'[a] # accounts[a] => a \in Ids(acct_rows)

\* A step leaves the leads as they are and the log rows it found in place.
LeadsAndLogFrame ==
    /\ lead_table' = lead_table
    /\ Len(message_logs') >= Len(message_logs)
    /\ SubSeq(message_logs', 1, Len(message_logs)) = message_logs

\* C23 as stated: no step of send_messages writes a lead or a template,
\* creates or deletes an account, or writes an account outside the snapshot
\* or a column other than status, last_activity, last_message_at, last_error;
\* to the log it only appends.
C23_RunWritesLogAndHealth ==
    [][ Run => /\ AccountsFrame
               /\ LeadsAndLogFrame
               /\ message_templates' = message_templates ]_vars

\* C23 as amended: the same, except that the template prompt, before the
\* first attempt, may insert the 'Default' row into an empty table and may
\* insert or replace the row the operator enters; from the first pass on the
\* templates are left as they are.
C23_RunWritesAfterPrompts ==
    [][ Run => /\ AccountsFrame
               /\ LeadsAndLogFrame
               /\ IF pc = "config"
                    THEN message_templates' \in
                           {message_templates} \cup SelectTemplate(message_templates)
                    ELSE message_templates' = message_templates ]_vars

\* C23 witness: a run that took the template the operator entered has
\* finished with every lead sent, the accounts of its snapshot updated.
C23_Witness ==
    /\ Finished
    /\ edits = 0
    /\ message_templates = {[name |-> "Default", content |-> "entered"]}
    /\ total_sent = MaxLeads
    /\ \A a \in Ids(acct_rows) : accounts[a].last_message_at # NULL

\* C24: with the operator and a second run writing to the same store, every
\* step leaves each log row it found in its place, and a health update after
\* a success leaves status, cooldown_until and alias of its account as the
\* store holds them, and every other account as it is.
C24_NoLostUpdate ==
    /\ [][ /\ Len(message_logs') >= Len(message_logs)
           /\ SubSeq(message_logs', 1, Len(message_logs)) = message_logs ]_vars
    /\ [][ (UpdateActivity /\ result = "sent") =>
              /\ accounts'[account].status = accounts[account].status
              /\ accounts'[account].cooldown_until = accounts[account].cooldown_until
              /\ accounts'[account].alias = accounts[account].alias
              /\ \A b \in AccountIds \ {account} : accounts'[b] = accounts[b] ]_vars

\* C24 witness: the log holds a row of the second run between two rows of
\* the run, and the run's second attempt, a success, is logged and its
\* health update made.
C24_Witness ==
    /\ Len(message_logs) = 3
    /\ message_logs[2].lead_id = OtherLead
    /\ message_logs[1].lead_id # OtherLead
    /\ message_logs[3].lead_id # OtherLead
    /\ message_logs[3].status = "sent"
    /\ pc \in {"pace", "while"}

\* The place that follows place p in the fetched account rows, the first
\* following the last.
NextPlace(p) == (p % Len(acct_rows)) + 1

\* C25: the first attempt opens the turn of the first fetched account; an
\* attempt either continues the turn of the attempt before it (same account,
\* after a success, below the limit) or opens the turn of the account next in
\* the fetched order, the first following the last, which it does only after
\* a failure or with the limit reached; no turn holds more than per_account
\* attempts; and a run ends only with the lead iterator used up.
C25_TurnsWithinPass ==
    /\ \A i \in DOMAIN dispatched :
          LET d == dispatched[i]
          IN /\ d.sent_for_account < per_account
             /\ i = 1 => d.sent_for_account = 0 /\ d.account = acct_rows[1]
             /\ i > 1 =>
                   LET p == dispatched[i - 1]
                   IN IF d.sent_for_account > 0
                        THEN /\ d.account = p.account
                             /\ p.result = "sent"
                             /\ d.sent_for_account = p.sent_for_account + 1
                        ELSE /\ PlaceOf(d.account) = NextPlace(PlaceOf(p.account))
                             /\ \/ p.result = "error"
                                \/ p.sent_for_account + 1 = per_account
    /\ Finished => lead_iter = Len(leads)

\* C25 witness: a finished run of two accounts with limit 2 whose first
\* account sent twice and whose second account failed at its first attempt.
C25_Witness ==
    /\ Finished
    /\ Len(acct_rows) = NumAccounts /\ per_account = MaxPerAccount
    /\ Len(dispatched) = MaxLeads
    /\ dispatched[2].sent_for_account = 1
    /\ dispatched[3].result = "error"
    /\ dispatched[3].account # dispatched[1].account

\* C26: while every Sender call has succeeded, the k-th lead (counting from
\* 0) was dispatched by the account at place (k div per_account) mod N
\* (counting from 0) of the fetched rows.
C26_BlocksOfLimit ==
    SenderAlwaysSucceeded =>
        \A i \in DOMAIN dispatched :
            /\ dispatched[i].lead = leads[i]
            /\ dispatched[i].account =
                  acct_rows[(((i - 1) \div per_account) % Len(acct_rows)) + 1]

\* C26 witness: with two accounts and limit 1 three leads were sent, the
\* third by the first account in a second pass.
C26_Witness ==
    /\ Finished
    /\ SenderAlwaysSucceeded
    /\ Len(acct_rows) = NumAccounts /\ per_account = 1
    /\ Len(dispatched) = MaxLeads
    /\ dispatched[MaxLeads].account = acct_rows[1]

\* C27: an 'error' row is in the log only for a lead whose Sender call
\* failed, no lead has two rows, and (no manual edit made) an account is
\* 'inestable' only if a Sender call with it failed.
C27_DegradedOnlyOnSenderFailure ==
    /\ \A i \in Logged("error") :
          \E j \in DOMAIN dispatched :
              /\ dispatched[j].lead = message_logs[i].lead_id
              /\ dispatched[j].result = "error"
    /\ \A i, j \in DOMAIN message_logs :
          message_logs[i].lead_id = message_logs[j].lead_id => i = j
    /\ edits = 0 =>
          \A a \in AccountIds :
              accounts[a].status = "inestable" =>
                  \E j \in DOMAIN dispatched :
                      dispatched[j].account = a /\ dispatched[j].result = "error"

\* C28: the run has appended as many log rows as it has applied health
\* updates, or one more; the i-th health update is for the account of the
\* i-th log row and of the same outcome; and no row is logged before its
\* Sender call.
C28_LogBeforeHealth ==
    /\ Len(message_logs) - Len(health_updates) \in {0, 1}
    /\ Len(message_logs) <= Len(dispatched)
    /\ \A i \in DOMAIN health_updates :
          /\ health_updates[i].account = message_logs[i].account_id
          /\ health_updates[i].success = (message_logs[i].status = "sent")

\* C28 witness: a run was interrupted between the log row of its second
\* attempt and the health update that follows it.
C28_Witness ==
    /\ pc = "interrupted"
    /\ Len(message_logs) = 2
    /\ Len(health_updates) = 1

\* The new row is in the table.
Stored == new_account # NoRow

\* C29: the account add_account creates is stored as 'viva' only once its
\* login attempt has reported success, and after a reported failure as
\* 'inestable' with last_error holding the message; while the login is under
\* way, and after a crash during it, the row is absent (src/accounts.py) or
\* stored as 'inestable' (linkedin_cli), and the active-account query does
\* not return it; an empty user name creates no row; and the finished call
\* leaves the status, last_activity and last_error the model's tables
\* start with.
C29_VivaOnlyAfterLogin ==
    /\ (Stored /\ new_account.status = "viva") => (login = "ok" /\ add_pc = "done")
    /\ login = "ok" => (Stored /\ new_account.status = "viva" /\ new_account.last_error = NULL)
    /\ login = "failed" =>
          /\ Stored
          /\ new_account.status = "inestable"
          /\ new_account.last_error = <<CharE>>
    /\ add_pc \in {"login", "crashed"} =>
          /\ Stored <=> add_input.package = "linkedin_cli"
          /\ Stored =>
                /\ new_account.status = "inestable"
                /\ ~RowMatches(new_account, new_account.group_id, UtcNow)
    /\ add_input.username = << >> => ~Stored
    /\ (add_pc = "done" /\ Stored) =>
          \A f \in {"status", "last_activity", "last_message_at", "last_error", "cooldown_until"} :
              new_account[f] = NewAccount(1, NULL, login = "ok")[f]

\* C29 witness: linkedin_cli's add_account was killed during the login, and
\* the row it had committed is in the table.
C29_Witness ==
    /\ add_pc = "crashed"
    /\ Stored
    /\ add_input.package = "linkedin_cli"

\* The delays the reply loop sleeps between are numbers with
\* 0 <= delay_min <= delay_max.
DelaysInOrder ==
    /\ bot.delay_min # NaN
    /\ bot.delay_max # NaN
    /\ 0 <= bot.delay_min
    /\ bot.delay_min <= bot.delay_max

\* C30: a reply is made only with api_key and prompt both non-empty, a
\* non-empty selection and 0 <= delay_min <= delay_max; every reply is by a
\* selected account, every selected account has status 'viva' (the table is
\* as it was at activation); and the started loop ends only by the
\* operator's interrupt.
C30_RepliesOnlyWhenConfigured ==
    /\ bot.replies # << >> =>
          /\ bot.api_key # ""
          /\ bot.prompt # ""
          /\ bot.selected # << >>
          /\ DelaysInOrder
    /\ \A i \in DOMAIN bot.replies :
          \E k \in DOMAIN bot.selected : bot.selected[k] = bot.replies[i]
    /\ \A k \in DOMAIN bot.selected : accounts[bot.selected[k]].status = "viva"
    /\ bot.pc # "crashed"

\* C30 without the entries float() reads as NaN: the part of the claim the
\* code keeps.
C30_RepliesWithNumericDelays ==
    (bot.delay_min # NaN /\ bot.delay_max # NaN) => C30_RepliesOnlyWhenConfigured
====
